---- MODULE Spec2Model ----
(***************************************************************************)
(* Audiobook request reconciliation: the sync orchestrator run_abs_sync,   *)
(* its triggers (periodic job, manager route, trigger_manual_sync), the    *)
(* manager's request edit, and the matcher the run consumes.               *)
(*                                                                         *)
(* The persisted store is the pair (syncLogs, requests).  Every run works  *)
(* on its own SQLAlchemy session: objects loaded by a query are held in    *)
(* the session (base = values as loaded, sess = current values) and a      *)
(* commit writes, for every held object, the attributes whose current      *)
(* value differs from the loaded one.                                      *)
(***************************************************************************)
EXTENDS Integers, Sequences, FiniteSets, TLC

\* ------------------------------------------------------------------ bounds
\* Number of times the clock advances.
MaxTicks == 1
\* Number of status edits the manager makes.
MaxEdits == 1

\* --------------------------------------------------------------- constants
StaleMinutes == 5

NullTime == 0

NULL == "NULL"

ReqIds == {1, 2}

ManagerIds == {"m1"}

_CHECKABLE_STATUSES == {"pending", "in_progress", "possible_match"}

_VALID_STATUSES ==
  {"pending", "in_progress", "completed", "fulfilled", "possible_match", "rejected"}

\* Settled statuses a possible match must not overwrite (sync.py line 111).
SettledStatuses == {"fulfilled", "completed", "rejected"}

\* ------------------------------------------------------- requests' content
\* title is NOT NULL; author is stored as NULL when the form field is empty.
ReqTitle(r) == "Dune"

ReqAuthor(r) == IF r = 1 THEN "Frank Herbert" ELSE NULL

\* A title that is not a string (a JSON number in the item's metadata).
NonString == "#1984"

E1 == [title |-> "Dune", author |-> "Frank Herbert"]
E2 == [title |-> "Dune", author |-> NULL]
E3 == [title |-> "Emma", author |-> "Jane Austen"]
EBad == [title |-> NonString, author |-> NULL]

\* The snapshots the catalogue may return to one fetch.
Catalogs == {<< >>, <<E1>>, <<E3>>, <<E2, E1>>, <<E1, EBad>>}

\* ------------------------------------------------------------------ matcher
\* ABS_MATCH_THRESHOLD (0.85), in percent.
Threshold == 85

\* LibraryMatcher.normalize on the strings of this model (none of them holds
\* punctuation or repeated blanks): absent or empty text gives the empty
\* string, every other text is lower-cased.
normalize(text) ==
  CASE text = NULL -> ""
    [] text = "" -> ""
    [] text = "Dune" -> "dune"
    [] text = "Emma" -> "emma"
    [] text = "Frank Herbert" -> "frank herbert"
    [] text = "Jane Austen" -> "jane austen"
    [] OTHER -> text

\* text.lower() raises AttributeError when the text is truthy and no string.
NormalizeRaises(text) == text = NonString

\* rapidfuzz.fuzz.token_set_ratio on normalised strings, in percent.
token_set_ratio(a, b) ==
  IF a = "" \/ b = "" THEN 0
  ELSE IF a = b THEN 100
  ELSE 25

\* rapidfuzz.fuzz.ratio on normalised strings, in percent.
ratio(a, b) ==
  IF a = b THEN 100 ELSE 33

\* LibraryMatcher(threshold=...): the instance holds its threshold.
LibraryMatcher(threshold) == [threshold |-> threshold]

\* Lines 59-69 of score with both comparisons strict.
Classified_Strict(self, title_score, author_score) ==
  LET is_match == title_score > self.threshold /\ author_score > self.threshold
  IN [title_score |-> title_score,
      author_score |-> author_score,
      is_match |-> is_match,
      is_possible |-> title_score > self.threshold /\ ~is_match]

\* Lines 59-69 of score: the two flags from the two scores.
Classified(self, title_score, author_score) ==
  LET is_match == title_score >= self.threshold /\ author_score >= self.threshold
  IN [title_score |-> title_score,
      author_score |-> author_score,
      is_match |-> is_match,
      is_possible |-> title_score >= self.threshold /\ ~is_match]

\* score with the authors compared also when one of them is empty.
score_EmptyCompared(self, request_title, request_author, abs_title, abs_author) ==
  Classified(self,
             token_set_ratio(normalize(request_title), normalize(abs_title)),
             ratio(normalize(request_author), normalize(abs_author)))

score(self, request_title, request_author, abs_title, abs_author) ==
  LET t_req == normalize(request_title)
      t_abs == normalize(abs_title)
      a_req == normalize(request_author)
      a_abs == normalize(abs_author)
      title_score == token_set_ratio(t_req, t_abs)
      author_score == IF a_req # "" /\ a_abs # "" THEN ratio(a_req, a_abs) ELSE 0
  IN Classified(self, title_score, author_score)

\* dict(item) updated with its score.
Merged(self, title, author, item) ==
  LET s == score(self, title, author, item.title, item.author)
  IN [title |-> item.title, author |-> item.author,
      title_score |-> s.title_score, author_score |-> s.author_score,
      is_match |-> s.is_match, is_possible |-> s.is_possible]

RECURSIVE Kept(_, _, _, _)
\* The loop of find_matches: the items that are a match or a possible match,
\* in the order of library_items.
Kept(self, title, author, library_items) ==
  IF library_items = << >> THEN << >>
  ELSE LET m == Merged(self, title, author, Head(library_items))
           rest == Kept(self, title, author, Tail(library_items))
       IN IF m.is_match \/ m.is_possible THEN <<m>> \o rest ELSE rest

RECURSIVE InsertDesc_BeforeEqual(_, _)
\* x placed before the elements whose title_score equals its own.
InsertDesc_BeforeEqual(x, s) ==
  IF s = << >> THEN <<x>>
  ELSE IF Head(s).title_score > x.title_score
       THEN <<Head(s)>> \o InsertDesc_BeforeEqual(x, Tail(s))
       ELSE <<x>> \o s

RECURSIVE InsertDesc(_, _)
\* x placed after every element whose title_score is at least its own.
InsertDesc(x, s) ==
  IF s = << >> THEN <<x>>
  ELSE IF Head(s).title_score >= x.title_score
       THEN <<Head(s)>> \o InsertDesc(x, Tail(s))
       ELSE <<x>> \o s

RECURSIVE SortedDesc(_)
\* sorted(matches, key=title_score, reverse=True): stable.
SortedDesc(s) ==
  IF s = << >> THEN << >>
  ELSE InsertDesc(s[Len(s)], SortedDesc(SubSeq(s, 1, Len(s) - 1)))

find_matches(self, title, author, library_items) ==
  SortedDesc(Kept(self, title, author, library_items))

\* find_matches scores every item; normalize raises on a non-string title.
CheckRaises(library_items) ==
  \E i \in 1..Len(library_items) : NormalizeRaises(library_items[i].title)

\* check_single calling the answer certain when any kept item is a match.
check_single_AnyCertain(self, title, author, library_items) ==
  LET matches == find_matches(self, title, author, library_items)
  IN IF matches = << >>
     THEN [found |-> FALSE, is_certain |-> FALSE, match |-> NULL]
     ELSE [found |-> TRUE,
           is_certain |-> \E i \in 1..Len(matches) : matches[i].is_match,
           match |-> [title |-> matches[1].title, author |-> matches[1].author]]

check_single(self, title, author, library_items) ==
  LET matches == find_matches(self, title, author, library_items)
  IN IF matches = << >>
     THEN [found |-> FALSE, is_certain |-> FALSE, match |-> NULL]
     ELSE [found |-> TRUE, is_certain |-> matches[1].is_match,
           match |-> [title |-> matches[1].title, author |-> matches[1].author]]

\* -------------------------------------------------------------------- state
VARIABLES
  now,              \* datetime.utcnow(), in minutes
  config,           \* app.config: is AUDIOBOOKSHELF_URL / _API_TOKEN set
  syncLogs,         \* table sync_logs (row id = position)
  requests,         \* table audiobook_requests
  cache,            \* cache entry 'abs_all_items' (NULL when absent)
  invoked,          \* number of invocations of run_abs_sync so far
  edits,            \* number of manager edits so far
  pc,               \* position of each invocation in run_abs_sync
  triggered_by,     \* arguments of each invocation
  triggered_by_user_id,
  invoked_at,       \* time of each invocation
  log_id,           \* 0 until the invocation has inserted its row
  abs_items,        \* the snapshot the invocation fetched
  fetched,          \* how the client came to its answer
  active_requests,  \* the selected request ids, in query order
  idx,              \* position of the loop in active_requests
  base,             \* session objects as loaded
  sess,             \* session objects, current attribute values
  matched_ids,
  exc,              \* the exception caught by the except clause (NULL if none)
  sess_ok,          \* FALSE once a commit of the session has raised
  wrote,            \* request ids this invocation's commits have updated
  flashed,          \* the message POST /manager/sync last answered with
  scored            \* inputs and results of the matcher applied on its own

vars ==
  <<flashed, scored, now, config, syncLogs, requests, cache, invoked, edits, pc,
    triggered_by,
    triggered_by_user_id, invoked_at, log_id, abs_items, fetched,
    active_requests, idx, base, sess, matched_ids, exc, sess_ok, wrote>>

\* Everything local to the invocations.
locals ==
  <<pc, triggered_by, triggered_by_user_id, invoked_at, log_id, abs_items,
    fetched, active_requests, idx, base, sess, matched_ids, exc, sess_ok, wrote>>

\* The invocations of run_abs_sync, each on a thread of its own.
Runs == {1, 2}

\* AudiobookRequest as created by request_new: pending, nothing matched.
NewRequest ==
  [status |-> "pending", fulfilled_by_sync |-> FALSE,
   abs_match_title |-> NULL, abs_match_author |-> NULL,
   last_sync_checked_at |-> NullTime]

\* A session holding no loaded object.
NoObjects == [r \in ReqIds |-> NewRequest]

\* The application after create_app: empty ledger, the requests as users
\* made them, no run under way.
Started ==
  /\ flashed = NULL
  /\ now = 1
  /\ config \in {[url |-> TRUE, token |-> TRUE],
                 [url |-> TRUE, token |-> FALSE],
                 [url |-> FALSE, token |-> FALSE]}
  /\ syncLogs = << >>
  /\ requests = [r \in ReqIds |-> NewRequest]
  /\ cache = NULL
  /\ invoked = 0
  /\ edits = 0
  /\ pc = [k \in Runs |-> "idle"]
  /\ triggered_by = [k \in Runs |-> NULL]
  /\ triggered_by_user_id = [k \in Runs |-> NULL]
  /\ invoked_at = [k \in Runs |-> NullTime]
  /\ log_id = [k \in Runs |-> 0]
  /\ abs_items = [k \in Runs |-> << >>]
  /\ fetched = [k \in Runs |-> NULL]
  /\ active_requests = [k \in Runs |-> << >>]
  /\ idx = [k \in Runs |-> 1]
  /\ base = [k \in Runs |-> NoObjects]
  /\ sess = [k \in Runs |-> NoObjects]
  /\ matched_ids = [k \in Runs |-> << >>]
  /\ exc = [k \in Runs |-> NULL]
  /\ sess_ok = [k \in Runs |-> TRUE]
  /\ wrote = [k \in Runs |-> {}]

Init == Started /\ scored = NULL

\* ------------------------------------------------------------ overlap guard
\* The guard with the cutoff taken as now, the window left out.
AlreadyRunning_NoWindow(logs, t) ==
  \E i \in 1..Len(logs) :
    /\ logs[i].status = "running"
    /\ logs[i].started_at > t

\* The guard with the comparison against the cutoff reversed.
AlreadyRunning_Reversed(logs, t) ==
  \E i \in 1..Len(logs) :
    /\ logs[i].status = "running"
    /\ logs[i].started_at < t - StaleMinutes

\* The guard taking every row inside the window, whatever its status.
AlreadyRunning_AnyStatus(logs, t) ==
  \E i \in 1..Len(logs) : logs[i].started_at > t - StaleMinutes

\* The guard taking every running row, however old.
AlreadyRunning_NoCutoff(logs, t) ==
  \E i \in 1..Len(logs) : logs[i].status = "running"

\* SyncLog.query.filter(status == 'running', started_at > cutoff).first()
AlreadyRunning(logs, t) ==
  \E i \in 1..Len(logs) :
    /\ logs[i].status = "running"
    /\ logs[i].started_at > t - StaleMinutes

\* ----------------------------------------------------------------- triggers
\* The caller running the guard of run_abs_sync itself before it returns.
Enter_Inline(k, by, user) ==
  /\ k = invoked + 1
  /\ k \in Runs
  /\ invoked' = k
  /\ pc' = [pc EXCEPT ![k] = IF AlreadyRunning(syncLogs, now) THEN "done" ELSE "open"]
  /\ triggered_by' = [triggered_by EXCEPT ![k] = by]
  /\ triggered_by_user_id' = [triggered_by_user_id EXCEPT ![k] = user]
  /\ invoked_at' = [invoked_at EXCEPT ![k] = now]
  /\ UNCHANGED <<scored, now, config, syncLogs, requests, cache, edits, log_id, abs_items,
                 fetched, active_requests, idx, base, sess, matched_ids, exc,
                 sess_ok, wrote>>

\* A new thread enters run_abs_sync.
Enter(k, by, user) ==
  /\ k = invoked + 1
  /\ k \in Runs
  /\ invoked' = k
  /\ pc' = [pc EXCEPT ![k] = "guard"]
  /\ triggered_by' = [triggered_by EXCEPT ![k] = by]
  /\ triggered_by_user_id' = [triggered_by_user_id EXCEPT ![k] = user]
  /\ invoked_at' = [invoked_at EXCEPT ![k] = now]
  /\ UNCHANGED <<scored, now, config, syncLogs, requests, cache, edits, log_id, abs_items,
                 fetched, active_requests, idx, base, sess, matched_ids, exc,
                 sess_ok, wrote>>

\* The periodic job: registered by init_scheduler only when the URL is set;
\* the job store runs one instance of a job at a time.
ScheduledSync(k) ==
  /\ config.url
  /\ \A j \in Runs : triggered_by[j] = "scheduler" => pc[j] \in {"idle", "done"}
  /\ Enter(k, "scheduler", NULL)
  /\ UNCHANGED flashed

\* The thread started without its keyword arguments: run_abs_sync runs with
\* its defaults.
trigger_manual_sync_Defaults(k, user) == Enter(k, "scheduler", NULL)

\* trigger_manual_sync: a daemon thread running run_abs_sync as 'manual'.
trigger_manual_sync(k, user) == Enter(k, "manual", user)

\* Everything but the answer of POST /manager/sync.
allButFlashed ==
  <<scored, now, config, syncLogs, requests, cache, invoked, edits, pc,
    triggered_by, triggered_by_user_id, invoked_at, log_id, abs_items, fetched,
    active_requests, idx, base, sess, matched_ids, exc, sess_ok, wrote>>

allButScored ==
  <<flashed, now, config, syncLogs, requests, cache, invoked, edits, pc,
    triggered_by, triggered_by_user_id, invoked_at, log_id, abs_items, fetched,
    active_requests, idx, base, sess, matched_ids, exc, sess_ok, wrote>>

\* The manager's POST /manager/sync: the answer is flashed and the route
\* redirects; the thread it started is left to itself.
trigger_sync(k, user) ==
  IF ~config.url
  THEN flashed' = "danger" /\ UNCHANGED allButFlashed
  ELSE IF AlreadyRunning(syncLogs, now)
  THEN flashed' = "warning" /\ UNCHANGED allButFlashed
  ELSE trigger_manual_sync(k, user) /\ flashed' = "success"

\* ------------------------------------------------------------- run_abs_sync
\* run_abs_sync returns: the thread ends and its locals and session are gone.
Return(k) ==
  /\ pc' = [pc EXCEPT ![k] = "done"]
  /\ abs_items' = [abs_items EXCEPT ![k] = << >>]
  /\ active_requests' = [active_requests EXCEPT ![k] = << >>]
  /\ idx' = [idx EXCEPT ![k] = 1]
  /\ base' = [base EXCEPT ![k] = NoObjects]
  /\ sess' = [sess EXCEPT ![k] = NoObjects]
  /\ matched_ids' = [matched_ids EXCEPT ![k] = << >>]

\* Lines 29-39: the guard query; a hit returns without touching anything.
Guard(k) ==
  /\ pc[k] = "guard"
  /\ IF AlreadyRunning(syncLogs, now)
     THEN Return(k)
     ELSE /\ pc' = [pc EXCEPT ![k] = "open"]
          /\ UNCHANGED <<abs_items, active_requests, idx, base, sess, matched_ids>>
  /\ UNCHANGED <<flashed, scored, now, config, syncLogs, requests, cache, invoked, edits, triggered_by,
                 triggered_by_user_id, invoked_at, log_id, fetched, exc, sess_ok,
                 wrote>>

\* The row created with a status other than running.
NewSyncLog_Pending(by, user, t) ==
  [status |-> "pending", started_at |-> t, finished_at |-> NullTime,
   total_requests_checked |-> 0, total_matches_found |-> 0,
   matched_request_ids |-> << >>, error_message |-> NULL,
   triggered_by |-> by, triggered_by_user_id |-> user]

\* The SyncLog row of lines 42-46 with the column defaults of the model
\* (matched_request_ids NULL is held as the empty list).
NewSyncLog(by, user, t) ==
  [status |-> "running", started_at |-> t, finished_at |-> NullTime,
   total_requests_checked |-> 0, total_matches_found |-> 0,
   matched_request_ids |-> << >>, error_message |-> NULL,
   triggered_by |-> by, triggered_by_user_id |-> user]

\* Lines 42-49: insert the row and commit.
OpenRun(k) ==
  /\ pc[k] = "open"
  /\ syncLogs' = Append(syncLogs, NewSyncLog(triggered_by[k], triggered_by_user_id[k], now))
  /\ log_id' = [log_id EXCEPT ![k] = Len(syncLogs) + 1]
  /\ pc' = [pc EXCEPT ![k] = "fetch"]
  /\ UNCHANGED <<flashed, scored, now, config, requests, cache, invoked, edits, triggered_by,
                 triggered_by_user_id, invoked_at, abs_items, fetched,
                 active_requests, idx, base, sess, matched_ids, exc, sess_ok, wrote>>

\* AudiobookshelfClient._configured
_configured == config.url /\ config.token

\* What get_all_items_all_libraries can answer: the client answers the empty
\* list when it is not configured and when the HTTP call fails (_get gives
\* None, get_libraries gives []); a reachable server answers its items; a
\* page that is no JSON object makes get_all_library_items raise.
FetchAnswers ==
  IF ~_configured
  THEN {[how |-> "not_configured", items |-> << >>]}
  ELSE {[how |-> "http_error", items |-> << >>], [how |-> "raised", items |-> << >>]}
       \cup {[how |-> "ok", items |-> c] : c \in Catalogs}

\* The fetch refreshing the cache with the first item of the snapshot only.
Fetch_CachesFirst(k) ==
  /\ pc[k] = "fetch"
  /\ IF ~config.url
     THEN /\ exc' = [exc EXCEPT ![k] = "AUDIOBOOKSHELF_URL is not configured"]
          /\ pc' = [pc EXCEPT ![k] = "except"]
          /\ UNCHANGED <<abs_items, fetched, cache>>
     ELSE \E a \in FetchAnswers :
            /\ fetched' = [fetched EXCEPT ![k] = a.how]
            /\ IF a.how = "raised"
               THEN /\ exc' = [exc EXCEPT ![k] = "'list' object has no attribute 'get'"]
                    /\ pc' = [pc EXCEPT ![k] = "except"]
                    /\ UNCHANGED <<abs_items, cache>>
               ELSE /\ abs_items' = [abs_items EXCEPT ![k] = a.items]
                    /\ cache' = IF a.items = << >> THEN << >> ELSE <<Head(a.items)>>
                    /\ pc' = [pc EXCEPT ![k] = "select"]
                    /\ UNCHANGED exc
  /\ UNCHANGED <<flashed, scored, now, config, syncLogs, requests, invoked, edits, triggered_by,
                 triggered_by_user_id, invoked_at, log_id, active_requests, idx,
                 base, sess, matched_ids, sess_ok, wrote>>

\* Lines 56-67: the URL check, the fetch, the cache refresh.
Fetch(k) ==
  /\ pc[k] = "fetch"
  /\ IF ~config.url
     THEN /\ exc' = [exc EXCEPT ![k] = "AUDIOBOOKSHELF_URL is not configured"]
          /\ pc' = [pc EXCEPT ![k] = "except"]
          /\ UNCHANGED <<abs_items, fetched, cache>>
     ELSE \E a \in FetchAnswers :
            /\ fetched' = [fetched EXCEPT ![k] = a.how]
            /\ IF a.how = "raised"
               THEN /\ exc' = [exc EXCEPT ![k] = "'list' object has no attribute 'get'"]
                    /\ pc' = [pc EXCEPT ![k] = "except"]
                    /\ UNCHANGED <<abs_items, cache>>
               ELSE /\ abs_items' = [abs_items EXCEPT ![k] = a.items]
                    /\ cache' = a.items
                    /\ pc' = [pc EXCEPT ![k] = "select"]
                    /\ UNCHANGED exc
  /\ UNCHANGED <<flashed, scored, now, config, syncLogs, requests, invoked, edits, triggered_by,
                 triggered_by_user_id, invoked_at, log_id, active_requests, idx,
                 base, sess, matched_ids, sess_ok, wrote>>

RECURSIVE Ascending(_)
\* The ids of a set in ascending order (the order the query returns rows in).
Ascending(S) ==
  IF S = {} THEN << >>
  ELSE LET m == CHOOSE x \in S : \A y \in S : x <= y
       IN <<m>> \o Ascending(S \ {m})

\* The select without its status filter.
Checkable_All(reqs) == Ascending(ReqIds)

\* The select filtering out the fulfilled requests only.
Checkable_Unfulfilled(reqs) ==
  Ascending({r \in ReqIds : reqs[r].status # "fulfilled"})

\* AudiobookRequest.query.filter(status.in_(_CHECKABLE_STATUSES)).all()
Checkable(reqs) ==
  Ascending({r \in ReqIds : reqs[r].status \in _CHECKABLE_STATUSES})

\* Lines 79-84: the rows are loaded into the session as they are now.
Select(k) ==
  /\ pc[k] = "select"
  /\ active_requests' = [active_requests EXCEPT ![k] = Checkable(requests)]
  /\ base' = [base EXCEPT ![k] = requests]
  /\ sess' = [sess EXCEPT ![k] = requests]
  /\ idx' = [idx EXCEPT ![k] = 1]
  /\ matched_ids' = [matched_ids EXCEPT ![k] = << >>]
  /\ pc' = [pc EXCEPT ![k] = IF Checkable(requests) = << >> THEN "commit" ELSE "loop"]
  /\ UNCHANGED <<flashed, scored, now, config, syncLogs, requests, cache, invoked, edits, triggered_by,
                 triggered_by_user_id, invoked_at, log_id, abs_items, fetched,
                 exc, sess_ok, wrote>>

\* The loop body without the branch that reverts a possible match.
Applied_NoRevert(req, check) ==
  IF check.found /\ check.is_certain
  THEN [req EXCEPT !.status = "fulfilled", !.fulfilled_by_sync = TRUE,
                   !.abs_match_title = check.match.title,
                   !.abs_match_author = check.match.author]
  ELSE IF check.found /\ ~check.is_certain /\ req.status \notin SettledStatuses
  THEN [req EXCEPT !.status = "possible_match",
                   !.abs_match_title = check.match.title,
                   !.abs_match_author = check.match.author]
  ELSE req

\* The loop body without the mark that the sync fulfilled the request.
Applied_NoFlag(req, check) ==
  IF check.found /\ check.is_certain
  THEN [req EXCEPT !.status = "fulfilled",
                   !.abs_match_title = check.match.title,
                   !.abs_match_author = check.match.author]
  ELSE IF check.found /\ ~check.is_certain /\ req.status \notin SettledStatuses
  THEN [req EXCEPT !.status = "possible_match",
                   !.abs_match_title = check.match.title,
                   !.abs_match_author = check.match.author]
  ELSE IF req.status = "possible_match"
  THEN [req EXCEPT !.status = "pending", !.abs_match_title = NULL,
                   !.abs_match_author = NULL]
  ELSE req

\* The loop body marking a possible match without storing the matched item.
Applied_NoSnapshot(req, check) ==
  IF check.found /\ check.is_certain
  THEN [req EXCEPT !.status = "fulfilled", !.fulfilled_by_sync = TRUE,
                   !.abs_match_title = check.match.title,
                   !.abs_match_author = check.match.author]
  ELSE IF check.found /\ ~check.is_certain /\ req.status \notin SettledStatuses
  THEN [req EXCEPT !.status = "possible_match"]
  ELSE IF req.status = "possible_match"
  THEN [req EXCEPT !.status = "pending", !.abs_match_title = NULL,
                   !.abs_match_author = NULL]
  ELSE req

\* The loop body reverting an unmatched possible match to in_progress.
Applied_RevertsInProgress(req, check) ==
  IF check.found /\ check.is_certain
  THEN [req EXCEPT !.status = "fulfilled", !.fulfilled_by_sync = TRUE,
                   !.abs_match_title = check.match.title,
                   !.abs_match_author = check.match.author]
  ELSE IF check.found /\ ~check.is_certain /\ req.status \notin SettledStatuses
  THEN [req EXCEPT !.status = "possible_match",
                   !.abs_match_title = check.match.title,
                   !.abs_match_author = check.match.author]
  ELSE IF req.status = "possible_match"
  THEN [req EXCEPT !.status = "in_progress", !.abs_match_title = NULL,
                   !.abs_match_author = NULL]
  ELSE req

\* Lines 96-121 on one request object (already stamped).
Applied(req, check) ==
  IF check.found /\ check.is_certain
  THEN [req EXCEPT !.status = "fulfilled", !.fulfilled_by_sync = TRUE,
                   !.abs_match_title = check.match.title,
                   !.abs_match_author = check.match.author]
  ELSE IF check.found /\ ~check.is_certain
  THEN IF req.status \notin SettledStatuses
       THEN [req EXCEPT !.status = "possible_match",
                        !.abs_match_title = check.match.title,
                        !.abs_match_author = check.match.author]
       ELSE req
  ELSE IF req.status = "possible_match"
       THEN [req EXCEPT !.status = "pending", !.abs_match_title = NULL,
                        !.abs_match_author = NULL]
       ELSE req

\* author or ''
OrEmpty(text) == IF text = NULL THEN "" ELSE text

\* Lines 86-121: one iteration of the loop.
LoopStep(k) ==
  /\ pc[k] = "loop"
  /\ LET r == active_requests[k][idx[k]]
         stamped == [sess[k][r] EXCEPT !.last_sync_checked_at = now]
         last == idx[k] = Len(active_requests[k])
         next == IF last THEN "commit" ELSE "loop"
     IN IF abs_items[k] = << >>
        THEN /\ sess' = [sess EXCEPT ![k][r] = stamped]
             /\ pc' = [pc EXCEPT ![k] = next]
             /\ idx' = [idx EXCEPT ![k] = idx[k] + 1]
             /\ UNCHANGED <<matched_ids, exc>>
        ELSE IF CheckRaises(abs_items[k])
        THEN /\ sess' = [sess EXCEPT ![k][r] = stamped]
             /\ exc' = [exc EXCEPT ![k] = "'int' object has no attribute 'lower'"]
             /\ pc' = [pc EXCEPT ![k] = "except"]
             /\ UNCHANGED <<matched_ids, idx>>
        ELSE LET matcher == LibraryMatcher(Threshold)
                 check == check_single(matcher, ReqTitle(r), OrEmpty(ReqAuthor(r)),
                                       abs_items[k])
             IN /\ sess' = [sess EXCEPT ![k][r] = Applied(stamped, check)]
                /\ matched_ids' =
                     [matched_ids EXCEPT ![k] =
                        IF check.found /\ check.is_certain THEN Append(@, r) ELSE @]
                /\ pc' = [pc EXCEPT ![k] = next]
                /\ idx' = [idx EXCEPT ![k] = idx[k] + 1]
                /\ UNCHANGED exc
  /\ UNCHANGED <<flashed, scored, now, config, syncLogs, requests, cache, invoked, edits, triggered_by,
                 triggered_by_user_id, invoked_at, log_id, abs_items, fetched,
                 active_requests, base, sess_ok, wrote>>

\* ------------------------------------------------------------ session flush
\* The ids whose session object differs from what was loaded.
Dirty(k) == {r \in ReqIds : sess[k][r] # base[k][r]}

\* One row after the UPDATE the flush issues for it: the attributes that were
\* changed in the session are written, the others keep their stored value.
Updated(row, loaded, current) ==
  [status |->
     IF current.status # loaded.status THEN current.status ELSE row.status,
   fulfilled_by_sync |->
     IF current.fulfilled_by_sync # loaded.fulfilled_by_sync
     THEN current.fulfilled_by_sync ELSE row.fulfilled_by_sync,
   abs_match_title |->
     IF current.abs_match_title # loaded.abs_match_title
     THEN current.abs_match_title ELSE row.abs_match_title,
   abs_match_author |->
     IF current.abs_match_author # loaded.abs_match_author
     THEN current.abs_match_author ELSE row.abs_match_author,
   last_sync_checked_at |->
     IF current.last_sync_checked_at # loaded.last_sync_checked_at
     THEN current.last_sync_checked_at ELSE row.last_sync_checked_at]

\* db.session.commit(): every dirty object of the session is flushed.
Flushed(k) ==
  [r \in ReqIds |->
     IF r \in Dirty(k) THEN Updated(requests[r], base[k][r], sess[k][r])
     ELSE requests[r]]

\* Line 123: the batch commit.  A commit that raises leaves the store as it
\* was and the session unusable until rollback() is called.
CommitRequests(k) ==
  /\ pc[k] = "commit"
  /\ \/ /\ requests' = Flushed(k)
        /\ wrote' = [wrote EXCEPT ![k] = @ \cup Dirty(k)]
        /\ base' = [base EXCEPT ![k] = sess[k]]
        /\ pc' = [pc EXCEPT ![k] = "finalise"]
        /\ UNCHANGED <<exc, sess_ok>>
     \/ /\ exc' = [exc EXCEPT ![k] = "OperationalError"]
        /\ sess_ok' = [sess_ok EXCEPT ![k] = FALSE]
        /\ pc' = [pc EXCEPT ![k] = "except"]
        /\ UNCHANGED <<requests, wrote, base>>
  /\ UNCHANGED <<flashed, scored, now, config, syncLogs, cache, invoked, edits, triggered_by,
                 triggered_by_user_id, invoked_at, log_id, abs_items, fetched,
                 active_requests, idx, sess, matched_ids>>

\* The closing update also writing the start time anew.
Completed_Restarted(row, t, total_checked, ids) ==
  [row EXCEPT !.status = "completed", !.started_at = t, !.finished_at = t,
              !.total_requests_checked = total_checked,
              !.total_matches_found = Len(ids),
              !.matched_request_ids = ids]

\* The closing update counting every checked request as a match.
Completed_CountsChecked(row, t, total_checked, ids) ==
  [row EXCEPT !.status = "completed", !.finished_at = t,
              !.total_requests_checked = total_checked,
              !.total_matches_found = total_checked,
              !.matched_request_ids = ids]

\* The closing update without the finishing time.
Completed_NoFinish(row, t, total_checked, ids) ==
  [row EXCEPT !.status = "completed",
              !.total_requests_checked = total_checked,
              !.total_matches_found = Len(ids),
              !.matched_request_ids = ids]

\* Lines 126-131 on the row.
Completed(row, t, total_checked, ids) ==
  [row EXCEPT !.status = "completed", !.finished_at = t,
              !.total_requests_checked = total_checked,
              !.total_matches_found = Len(ids),
              !.matched_request_ids = ids]

\* Lines 126-132: close the row as completed and commit.
Finalise(k) ==
  /\ pc[k] = "finalise"
  /\ \/ /\ syncLogs' =
             [syncLogs EXCEPT ![log_id[k]] =
                Completed(@, now, Len(active_requests[k]), matched_ids[k])]
        /\ Return(k)
        /\ UNCHANGED <<exc, sess_ok>>
     \/ /\ exc' = [exc EXCEPT ![k] = "OperationalError"]
        /\ sess_ok' = [sess_ok EXCEPT ![k] = FALSE]
        /\ pc' = [pc EXCEPT ![k] = "except"]
        /\ UNCHANGED <<syncLogs, abs_items, active_requests, idx, base, sess,
                       matched_ids>>
  /\ UNCHANGED <<flashed, scored, now, config, requests, cache, invoked, edits, triggered_by,
                 triggered_by_user_id, invoked_at, log_id, fetched, wrote>>

\* The failed row without its error message.
Failed_NoMessage(row, t, message) ==
  [row EXCEPT !.status = "failed", !.finished_at = t]

\* The failed row without its finishing time.
Failed_NoFinish(row, t, message) ==
  [row EXCEPT !.status = "failed", !.error_message = message]

\* Lines 145-147 on the row.
Failed(row, t, message) ==
  [row EXCEPT !.status = "failed", !.finished_at = t, !.error_message = message]

\* Lines 141-150: the except clause.  No rollback precedes its commit, so the
\* commit flushes whatever the session still holds; on a session whose commit
\* has raised, session.get raises and the inner except only logs.
Except(k) ==
  /\ pc[k] = "except"
  /\ IF sess_ok[k]
     THEN /\ syncLogs' = [syncLogs EXCEPT ![log_id[k]] = Failed(@, now, exc[k])]
          /\ requests' = Flushed(k)
          /\ wrote' = [wrote EXCEPT ![k] = @ \cup Dirty(k)]
     ELSE UNCHANGED <<syncLogs, requests, wrote>>
  /\ Return(k)
  /\ UNCHANGED <<flashed, scored, now, config, cache, invoked, edits, triggered_by,
                 triggered_by_user_id, invoked_at, log_id, fetched, exc, sess_ok>>

\* ------------------------------------------------------------------ manager
\* The status endpoint reporting only rows inside the guard's window.
sync_status_InsideWindow ==
  [configured |-> config.url,
   is_running |-> \E i \in 1..Len(syncLogs) :
                    /\ syncLogs[i].status = "running"
                    /\ syncLogs[i].started_at > now - StaleMinutes]

\* GET /manager/sync/status, the fields read from the configuration and the
\* ledger: is_running is true when any row has status running.
sync_status ==
  [configured |-> config.url,
   is_running |-> \E i \in 1..Len(syncLogs) : syncLogs[i].status = "running"]

\* POST /manager/requests/<id>: any valid status, committed at once.
request_edit(r, new_status) ==
  /\ edits < MaxEdits
  /\ new_status \in _VALID_STATUSES
  /\ requests' = [requests EXCEPT ![r].status = new_status]
  /\ edits' = edits + 1
  /\ UNCHANGED <<flashed, scored, now, config, syncLogs, cache, invoked>>
  /\ UNCHANGED locals

\* --------------------------------------------------------------------- time
\* A run is in a database phase from its guard query to the insert of its
\* row, and from the select of the requests to its return.
InDatabasePhase(k) ==
  pc[k] \in {"guard", "open", "select", "loop", "commit", "finalise", "except"}

\* The clock is observed at steps of the staleness window; the database
\* phases of a run take far less, so the clock steps while every run is
\* waiting for the catalogue or is not running.
Tick ==
  /\ now + StaleMinutes <= 1 + MaxTicks * StaleMinutes
  /\ \A k \in Runs : ~InDatabasePhase(k)
  /\ now' = now + StaleMinutes
  /\ UNCHANGED <<flashed, scored, config, syncLogs, requests, cache, invoked, edits>>
  /\ UNCHANGED locals

\* ----------------------------------------------------------- specifications
\* Concurrent invocations under the clock.
Next ==
  \/ \E k \in Runs : ScheduledSync(k)
  \/ \E k \in Runs, u \in ManagerIds : trigger_sync(k, u)
  \/ \E k \in Runs : Guard(k)
  \/ \E k \in Runs : OpenRun(k)
  \/ \E k \in Runs : Fetch(k)
  \/ \E k \in Runs : Select(k)
  \/ \E k \in Runs : LoopStep(k)
  \/ \E k \in Runs : CommitRequests(k)
  \/ \E k \in Runs : Finalise(k)
  \/ \E k \in Runs : Except(k)
  \/ Tick

Spec == Init /\ [][Next]_vars

\* No invocation is under way.
NoneRunning == \A j \in Runs : pc[j] \in {"idle", "done"}

\* Invocations one after the other, with the manager editing requests at any
\* point of them.
NextManaged ==
  \/ \E k \in Runs : NoneRunning /\ ScheduledSync(k)
  \/ \E k \in Runs, u \in ManagerIds : NoneRunning /\ trigger_sync(k, u)
  \/ \E k \in Runs : Guard(k)
  \/ \E k \in Runs : OpenRun(k)
  \/ \E k \in Runs : Fetch(k)
  \/ \E k \in Runs : Select(k)
  \/ \E k \in Runs : LoopStep(k)
  \/ \E k \in Runs : CommitRequests(k)
  \/ \E k \in Runs : Finalise(k)
  \/ \E k \in Runs : Except(k)
  \/ \E r \in ReqIds, s \in _VALID_STATUSES : request_edit(r, s)

SpecManaged == Init /\ [][NextManaged]_vars

\* The fetch of a run made against a catalogue that has not changed since the
\* run before it fetched: the client answers the same items again.
FetchUnchanged(k) ==
  /\ Fetch(k)
  /\ (k = 2 /\ fetched[1] \in {"ok", "http_error", "not_configured"})
       => (fetched'[k] # "raised" /\ cache' = cache)

\* Two invocations one after the other, nothing else touching the requests,
\* the catalogue unchanged between them.
NextRepeat ==
  \/ \E k \in Runs : NoneRunning /\ ScheduledSync(k)
  \/ \E k \in Runs, u \in ManagerIds : NoneRunning /\ trigger_sync(k, u)
  \/ \E k \in Runs : Guard(k)
  \/ \E k \in Runs : OpenRun(k)
  \/ \E k \in Runs : FetchUnchanged(k)
  \/ \E k \in Runs : Select(k)
  \/ \E k \in Runs : LoopStep(k)
  \/ \E k \in Runs : CommitRequests(k)
  \/ \E k \in Runs : Finalise(k)
  \/ \E k \in Runs : Except(k)

SpecRepeat == Init /\ [][NextRepeat]_vars

\* ------------------------------------------------------- the clock at instants
\* Instants the clock of datetime.utcnow() advances by.
MaxInstants == 1

\* The catalogue is configured: URL and token are set.
InitInstants == Init /\ _configured

\* datetime.utcnow() read at two points of the code differs: the clock
\* advances between any two steps of the threads.
Instant ==
  /\ now < 1 + MaxInstants
  /\ now' = now + 1
  /\ UNCHANGED <<flashed, scored, config, syncLogs, requests, cache, invoked, edits>>
  /\ UNCHANGED locals

\* Concurrent invocations under a clock that advances at any point of them.
NextInstants ==
  \/ \E k \in Runs : ScheduledSync(k)
  \/ \E k \in Runs, u \in ManagerIds : trigger_sync(k, u)
  \/ \E k \in Runs : Guard(k)
  \/ \E k \in Runs : OpenRun(k)
  \/ \E k \in Runs : Fetch(k)
  \/ \E k \in Runs : Select(k)
  \/ \E k \in Runs : LoopStep(k)
  \/ \E k \in Runs : CommitRequests(k)
  \/ \E k \in Runs : Finalise(k)
  \/ \E k \in Runs : Except(k)
  \/ Instant

SpecInstants == InitInstants /\ [][NextInstants]_vars

\* ------------------------------------------------------- the matcher alone
\* Thresholds a matcher may be configured with, in percent.
Thresholds == {0, 50, 85, 100}

\* Scores the two comparisons may give, in percent.
Scores == {0, 33, 84, 85, 86, 100}

\* The author of a request as score may receive it.
RequestAuthors == {"Frank Herbert", "", NULL}

NoFlags ==
  [title_score |-> 0, author_score |-> 0, is_match |-> FALSE, is_possible |-> FALSE]

\* A pair of scores to classify, and a request to check against one item.
ScoreInputs ==
  [threshold : Thresholds, title_score : Scores, author_score : Scores,
   request_author : RequestAuthors, status : _CHECKABLE_STATUSES,
   item : {E1, E2, E3},
   classified : {FALSE}, flags : {NoFlags},
   checked : {FALSE}, result : {NoFlags}, status_after : {NULL}]

InitScore == Started /\ scored \in ScoreInputs

\* Lines 59-69 applied to the pair of scores.
Classify ==
  /\ ~scored.classified
  /\ scored' = [scored EXCEPT
                  !.classified = TRUE,
                  !.flags = Classified(LibraryMatcher(scored.threshold),
                                       scored.title_score, scored.author_score)]
  /\ UNCHANGED allButScored

\* score applied to the request and the item, and the loop body of the run
\* (lines 92-121) applied to the request with the item as the catalogue.
CheckOne ==
  /\ ~scored.checked
  /\ LET self == LibraryMatcher(scored.threshold)
         item == scored.item
         req == [NewRequest EXCEPT !.status = scored.status]
         check == check_single(self, "Dune", OrEmpty(scored.request_author), <<item>>)
     IN scored' = [scored EXCEPT
                     !.checked = TRUE,
                     !.result = score(self, "Dune", scored.request_author,
                                      item.title, item.author),
                     !.status_after = Applied(req, check).status]
  /\ UNCHANGED allButScored

NextScore == Classify \/ CheckOne

SpecScore == InitScore /\ [][NextScore]_vars

\* ------------------------------------------------- the matcher on a list
\* Length of the longest list of items handed to find_matches.
MaxItems == 3

\* The lists of at most n elements of S.
Lists(S, n) == UNION {[1..m -> S] : m \in 0..n}

NoCheck == [found |-> FALSE, is_certain |-> FALSE, match |-> NULL]

\* A request (title 'Dune', an author or none) and a list of library items.
FindInputs ==
  [threshold : Thresholds, author : RequestAuthors,
   library_items : Lists({E1, E2, E3}, MaxItems),
   searched : {FALSE}, matches : {<< >>},
   checked : {FALSE}, check : {NoCheck}]

InitFind == Started /\ scored \in FindInputs

\* find_matches applied to the request and the list.
Find ==
  /\ ~scored.searched
  /\ scored' = [scored EXCEPT
                  !.searched = TRUE,
                  !.matches = find_matches(LibraryMatcher(scored.threshold), "Dune",
                                           scored.author, scored.library_items)]
  /\ UNCHANGED allButScored

\* check_single applied to the request and the list.
CheckList ==
  /\ ~scored.checked
  /\ scored' = [scored EXCEPT
                  !.checked = TRUE,
                  !.check = check_single(LibraryMatcher(scored.threshold), "Dune",
                                         scored.author, scored.library_items)]
  /\ UNCHANGED allButScored

NextFind == Find \/ CheckList

SpecFind == InitFind /\ [][NextFind]_vars

\* ------------------------------------------------- normalize on characters
\* normalize as the source computes it, on texts spelled as lists of
\* characters; the table normalize above is this function on the texts of the
\* requests and items of the model.
\* Length of the longest text.
MaxLen == 4

\* An upper-case and a lower-case letter, a digit, the underscore, a
\* punctuation character, the blank and the tab.
Chars == {"A", "b", "7", "_", "-", " ", "\t"}

\* str.lower() on one character.
lower(c) == IF c = "A" THEN "a" ELSE c

\* \w of a regular expression: letters, digits and the underscore.
IsWord(c) == c \in {"A", "a", "b", "7", "_"}

\* \s of a regular expression.
IsSpace(c) == c \in {" ", "\t"}

\* re.sub(r'[^\w\s]', ' ', text)
sub_nonword(text) ==
  [i \in 1..Len(text) |-> IF ~IsWord(text[i]) /\ ~IsSpace(text[i]) THEN " " ELSE text[i]]

RECURSIVE sub_spaces(_)
\* re.sub(r'\s+', ' ', text)
sub_spaces(text) ==
  IF text = << >> THEN << >>
  ELSE IF IsSpace(Head(text))
  THEN IF Len(text) > 1 /\ IsSpace(text[2])
       THEN sub_spaces(Tail(text))
       ELSE <<" ">> \o sub_spaces(Tail(text))
  ELSE <<Head(text)>> \o sub_spaces(Tail(text))

RECURSIVE lstrip(_)
lstrip(text) ==
  IF text # << >> /\ IsSpace(Head(text)) THEN lstrip(Tail(text)) ELSE text

RECURSIVE rstrip(_)
rstrip(text) ==
  IF text # << >> /\ IsSpace(text[Len(text)])
  THEN rstrip(SubSeq(text, 1, Len(text) - 1))
  ELSE text

\* str.strip()
strip(text) == rstrip(lstrip(text))

\* LibraryMatcher.normalize, lines 17-22; absent stands for None.
normalize_chars(absent, text) ==
  IF absent \/ text = << >> THEN << >>
  ELSE strip(sub_spaces(sub_nonword([i \in 1..Len(text) |-> lower(text[i])])))

\* A text, or none, to normalise.
NormalizeInputs ==
  [absent : {FALSE}, text : Lists(Chars, MaxLen),
   normalized : {FALSE}, once : {<< >>}, twice : {<< >>}]
  \cup {[absent |-> TRUE, text |-> << >>,
         normalized |-> FALSE, once |-> << >>, twice |-> << >>]}

InitNormalize == Started /\ scored \in NormalizeInputs

\* normalize applied to the text, and once more to its own result.
Normalize ==
  /\ ~scored.normalized
  /\ scored' = [scored EXCEPT
                  !.normalized = TRUE,
                  !.once = normalize_chars(scored.absent, scored.text),
                  !.twice = normalize_chars(FALSE,
                              normalize_chars(scored.absent, scored.text))]
  /\ UNCHANGED allButScored

NextNormalize == Normalize

SpecNormalize == InitNormalize /\ [][NextNormalize]_vars

\* ------------------------------------------------------------------- claims
\* What the claims read off a state.
Opened(k) == log_id[k] # 0

RowOf(k) == syncLogs[log_id[k]]

InsideWindow(row) == row.status = "running" /\ row.started_at > now - StaleMinutes

SomeRunningInsideWindow == \E i \in 1..Len(syncLogs) : InsideWindow(syncLogs[i])

LoopError == "'int' object has no attribute 'lower'"

FetchErrors ==
  {"AUDIOBOOKSHELF_URL is not configured", "'list' object has no attribute 'get'"}

\* C1: when the loop of a run raises, the commit of the except clause, which
\* closes the run as failed, changes no stored request.
C1_FailedRunCommitsNoRequest ==
  [][\A k \in Runs :
       (pc[k] = "except" /\ exc[k] = LoopError /\ pc'[k] = "done")
         => requests' = requests]_vars

\* C2: an invocation whose guard query finds a running row inside the window
\* returns at once: no new row, no row changed, no request changed, nothing
\* raised; and the manager route starts no thread in that state.
C2_GuardedInvocationIsNoOp ==
  [][/\ \A k \in Runs :
          (pc[k] = "guard" /\ SomeRunningInsideWindow /\ pc'[k] # "guard")
            => /\ pc'[k] = "done"
               /\ ~Opened(k)'
               /\ exc'[k] = NULL
               /\ syncLogs' = syncLogs
               /\ requests' = requests
     /\ (invoked' # invoked /\ triggered_by'[invoked'] = "manual")
          => ~SomeRunningInsideWindow]_vars

\* C2 witness: an invocation has returned from the guard while the row that
\* blocked it is still running inside the window.
C2_Witness ==
  \E k \in Runs : pc[k] = "done" /\ ~Opened(k) /\ SomeRunningInsideWindow

\* C3: the ledger never holds two running rows that are both inside the
\* staleness window.
C3_OneRunningRowInsideWindow ==
  \A i, j \in 1..Len(syncLogs) :
    (InsideWindow(syncLogs[i]) /\ InsideWindow(syncLogs[j])) => i = j

\* C4 as stated: an invocation made less than the window after another one
\* that has created a row never gets past its guard, whatever the state of
\* that row.
C4_SecondTriggerIsNoOp ==
  [][\A k \in Runs :
       (/\ pc[k] = "guard"
        /\ \E j \in Runs \ {k} :
             /\ Opened(j)
             /\ invoked_at[k] - invoked_at[j] < StaleMinutes)
         => pc'[k] \in {"guard", "done"}]_vars

\* C4 amended: an invocation gets past its guard only when no committed row
\* is running inside the window at its guard query.
C4_PassesGuardOnlyWhenNoneRunning ==
  [][\A k \in Runs :
       (pc[k] = "guard" /\ pc'[k] = "open") => ~SomeRunningInsideWindow]_vars

\* C4 witness: two rows created less than the window apart, the second one
\* opened after the first was closed.
C4_Witness ==
  /\ Len(syncLogs) = 2
  /\ syncLogs[1].status \in {"completed", "failed"}
  /\ syncLogs[2].started_at - syncLogs[1].started_at < StaleMinutes
  /\ syncLogs[2].started_at >= syncLogs[1].finished_at

\* C5: a run whose URL check or catalogue fetch raised and that has returned
\* has its row failed, with finished_at set and the failure description as
\* error message, and has updated no request.
C5_FetchFailureClosesFailed ==
  \A k \in Runs :
    (pc[k] = "done" /\ Opened(k) /\ exc[k] \in FetchErrors)
      => /\ RowOf(k).status = "failed"
         /\ RowOf(k).finished_at # NullTime
         /\ RowOf(k).error_message = exc[k]
         /\ wrote[k] = {}

\* C5 witness: a run whose fetch raised has returned and its row is failed.
C5_Witness ==
  \E k \in Runs :
    /\ pc[k] = "done"
    /\ Opened(k)
    /\ fetched[k] = "raised"
    /\ RowOf(k).status = "failed"

\* C6: a run whose catalogue HTTP call failed never closes as completed and
\* updates no request.
C6_UnreachableCatalogFailsRun ==
  \A k \in Runs :
    (Opened(k) /\ fetched[k] = "http_error")
      => /\ RowOf(k).status # "completed"
         /\ wrote[k] = {}

\* C7: with the URL or the API token absent, a started run never closes as
\* completed and updates no request.
C7_UnconfiguredSourceFailsRun ==
  \A k \in Runs :
    (Opened(k) /\ (~config.url \/ ~config.token))
      => /\ RowOf(k).status # "completed"
         /\ wrote[k] = {}

C9_ReturnedRunHasClosedItsRow ==
  \A k \in Runs :
    (pc[k] = "done" /\ Opened(k)) => RowOf(k).status \in {"completed", "failed"}

\* C10: no step of a run sets a request whose stored status is fulfilled,
\* completed or rejected to possible_match (only a manager edit may).
C10_NoDowngradeOfSettled ==
  [][\A r \in ReqIds :
       (requests[r].status \in SettledStatuses /\ requests'[r].status = "possible_match")
         => edits' # edits]_vars

\* The score of request r against one catalogue item, at the run's threshold.
ScoreOf(r, item) ==
  score(LibraryMatcher(Threshold), ReqTitle(r), OrEmpty(ReqAuthor(r)),
        item.title, item.author)

\* No item of the snapshot of run k is a match or a possible match for r.
NoneMatches(k, r) ==
  \A i \in 1..Len(abs_items[k]) :
    ~ScoreOf(r, abs_items[k][i]).is_match /\ ~ScoreOf(r, abs_items[k][i]).is_possible

\* The request commit of run k succeeds in this step.
Commits(k) == pc[k] = "commit" /\ pc'[k] = "finalise"

\* C11 as stated: a request the run loaded as possible_match and for which
\* no item of the run's snapshot is a match or a possible match is stored as
\* pending, with matched title and author null, by the run's commit.
C11_UnmatchedPossibleReverts ==
  [][\A k \in Runs : \A r \in ReqIds :
       (Commits(k) /\ base[k][r].status = "possible_match" /\ NoneMatches(k, r))
         => /\ requests'[r].status = "pending"
            /\ requests'[r].abs_match_title = NULL
            /\ requests'[r].abs_match_author = NULL]_vars

\* C11 amended: the reversion happens when the snapshot holds at least one
\* item; with an empty snapshot the commit leaves the stored status and
\* matched fields of the request as they are and writes the stamp only.
C11_UnmatchedPossibleRevertsUnlessEmpty ==
  [][\A k \in Runs : \A r \in ReqIds :
       (Commits(k) /\ base[k][r].status = "possible_match" /\ NoneMatches(k, r))
         => IF abs_items[k] # << >>
            THEN /\ requests'[r].status = "pending"
                 /\ requests'[r].abs_match_title = NULL
                 /\ requests'[r].abs_match_author = NULL
            ELSE /\ requests'[r].status = requests[r].status
                 /\ requests'[r].abs_match_title = requests[r].abs_match_title
                 /\ requests'[r].abs_match_author = requests[r].abs_match_author
                 /\ requests'[r].last_sync_checked_at = sess[k][r].last_sync_checked_at]_vars

\* C11 witness: a run is about to commit the reversion of a request it
\* loaded as possible_match, its snapshot holding an item that matches nothing.
C11_Witness ==
  \E k \in Runs : \E r \in ReqIds :
    /\ pc[k] = "commit"
    /\ abs_items[k] # << >>
    /\ NoneMatches(k, r)
    /\ base[k][r].status = "possible_match"
    /\ base[k][r].abs_match_title # NULL
    /\ sess[k][r].status = "pending"

\* C12: when the first run has completed and the second run works on the
\* snapshot the first one had, the second run's commit changes no stored
\* status and the second run closes with total_matches_found = 0.
C12_SecondRunChangesNothing ==
  [][(/\ Len(syncLogs) = 2
      /\ syncLogs[1].status = "completed"
      /\ log_id[2] = 2)
       => /\ Commits(2) => \A r \in ReqIds : requests'[r].status = requests[r].status
          /\ (pc[2] = "finalise" /\ pc'[2] = "done")
               => /\ syncLogs'[2].status = "completed"
                  /\ syncLogs'[2].total_matches_found = 0
                  /\ syncLogs'[2].matched_request_ids = << >>]_vars

\* C12 witness: two completed runs on the same snapshot, the first of which
\* fulfilled a request and marked the other as a possible match.
C12_Witness ==
  /\ Len(syncLogs) = 2
  /\ syncLogs[1].status = "completed"
  /\ syncLogs[2].status = "completed"
  /\ syncLogs[1].total_matches_found = 1
  /\ syncLogs[2].total_requests_checked = 1
  /\ requests[1].status = "fulfilled"
  /\ requests[2].status = "possible_match"

\* C13: in every stored state a request that is possible_match or fulfilled
\* has a matched title, and a request that is pending, in_progress, rejected
\* or completed has none.
C13_StatusCarriesSnapshot ==
  \A r \in ReqIds :
    /\ requests[r].status \in {"possible_match", "fulfilled"}
         => requests[r].abs_match_title # NULL
    /\ requests[r].status \in {"pending", "in_progress", "rejected", "completed"}
         => requests[r].abs_match_title = NULL

\* Request r is among the requests run k selected.
Selected(k, r) == \E i \in 1..Len(active_requests[k]) : active_requests[k][i] = r

\* C14: a request a run selected and for which the run's snapshot holds an
\* item with is_match is stored as fulfilled by the run's commit.
C14_CertainEntryFulfils ==
  [][\A k \in Runs : \A r \in ReqIds :
       (/\ Commits(k)
        /\ Selected(k, r)
        /\ \E i \in 1..Len(abs_items[k]) : ScoreOf(r, abs_items[k][i]).is_match)
         => requests'[r].status = "fulfilled"]_vars

\* This step stores every attribute of request r that run k changed in its
\* session.
StoresMutations(k, r) ==
  /\ sess[k][r].status # base[k][r].status
       => requests'[r].status = sess[k][r].status
  /\ sess[k][r].fulfilled_by_sync # base[k][r].fulfilled_by_sync
       => requests'[r].fulfilled_by_sync = sess[k][r].fulfilled_by_sync
  /\ sess[k][r].abs_match_title # base[k][r].abs_match_title
       => requests'[r].abs_match_title = sess[k][r].abs_match_title
  /\ sess[k][r].abs_match_author # base[k][r].abs_match_author
       => requests'[r].abs_match_author = sess[k][r].abs_match_author
  /\ sess[k][r].last_sync_checked_at # base[k][r].last_sync_checked_at
       => requests'[r].last_sync_checked_at = sess[k][r].last_sync_checked_at

\* C15: stored requests change only in the step in which a run's request
\* commit (the one after the loop) succeeds, and that step stores every
\* mutation the run made in its session.
C15_RequestsChangeOnlyAtCommit ==
  [][/\ requests' # requests => \E k \in Runs : Commits(k)
     /\ \A k \in Runs : Commits(k) => \A r \in ReqIds : StoresMutations(k, r)]_vars

\* C16: the step that starts a manual run ends with the thread at the
\* beginning of run_abs_sync (nothing of the run done yet, no row, nothing
\* raised) and the caller answered 'success'; no later step of any run changes
\* the answer the caller got; and a manual run whose fetch or loop raised and
\* that has returned shows the failure in its row.
C16_ManualTriggerReturnsAtOnce ==
  /\ [](\A k \in Runs :
          (/\ triggered_by[k] = "manual"
           /\ pc[k] = "done"
           /\ exc[k] \in FetchErrors \cup {LoopError})
            => /\ RowOf(k).status = "failed"
               /\ RowOf(k).error_message = exc[k])
  /\ [][/\ (invoked' # invoked /\ triggered_by'[invoked'] = "manual")
             => /\ pc'[invoked'] = "guard"
                /\ log_id'[invoked'] = 0
                /\ exc'[invoked'] = NULL
                /\ flashed' = "success"
                /\ syncLogs' = syncLogs
                /\ requests' = requests
        /\ \A k \in Runs :
             (pc[k] \notin {"idle", "done"} /\ pc'[k] # pc[k]) => flashed' = flashed]_vars

\* C16 witness: the caller was answered 'success' and the manual run it
\* started has failed since; another manual run was turned away by the guard.
C16_Witness ==
  /\ flashed = "success"
  /\ \E k \in Runs :
       /\ triggered_by[k] = "manual"
       /\ pc[k] = "done"
       /\ Opened(k)
       /\ RowOf(k).status = "failed"
  /\ \E k \in Runs :
       /\ triggered_by[k] = "manual"
       /\ pc[k] = "done"
       /\ ~Opened(k)

\* C17: in the state in which a trigger is turned away by the overlap guard
\* (the thread returning from its guard query, or the route answering that a
\* sync is already in progress) the status endpoint reports is_running, and
\* the step adds no row and changes no row and no request.
C17_RejectionShowsAsRunning ==
  [][/\ \A k \in Runs :
          (pc[k] = "guard" /\ pc'[k] = "done")
            => /\ sync_status.is_running
               /\ log_id'[k] = 0
               /\ exc'[k] = NULL
               /\ syncLogs' = syncLogs
               /\ requests' = requests
     /\ (flashed' = "warning" /\ flashed' # flashed)
          => /\ sync_status.is_running
             /\ invoked' = invoked
             /\ syncLogs' = syncLogs
             /\ requests' = requests]_vars

\* C17 witness: the route has turned a trigger away, a thread has returned
\* from its guard, and the ledger holds one row, the running one.
C17_Witness ==
  /\ flashed = "warning"
  /\ \E k \in Runs : pc[k] = "done" /\ ~Opened(k)
  /\ Len(syncLogs) = 1
  /\ syncLogs[1].error_message = NULL
  /\ sync_status.is_running

\* C18: the ledger never loses a row; a stored row is written only while it
\* is running, by the run that inserted it, in the step in which that run
\* closes it and returns; the write leaves the row's start and origin as they
\* were.  Hence a closed row never changes again.
C18_LedgerAppendOnly ==
  [][/\ Len(syncLogs') >= Len(syncLogs)
     /\ \A i \in 1..Len(syncLogs) :
          syncLogs'[i] # syncLogs[i]
            => /\ syncLogs[i].status = "running"
               /\ syncLogs'[i].status \in {"completed", "failed"}
               /\ syncLogs'[i].started_at = syncLogs[i].started_at
               /\ syncLogs'[i].triggered_by = syncLogs[i].triggered_by
               /\ syncLogs'[i].triggered_by_user_id = syncLogs[i].triggered_by_user_id
               /\ \E k \in Runs :
                    /\ log_id[k] = i
                    /\ pc[k] \in {"finalise", "except"}
                    /\ pc'[k] = "done"]_vars

\* C18 witness: a row closed as completed with a match counted, while a row
\* inserted after it has been closed as failed with its error message.
C18_Witness ==
  /\ Len(syncLogs) = 2
  /\ syncLogs[1].status = "completed"
  /\ syncLogs[1].total_matches_found = 1
  /\ syncLogs[1].matched_request_ids = <<1>>
  /\ syncLogs[2].status = "failed"
  /\ syncLogs[2].error_message = LoopError

\* C19: for every pair of scores and every threshold, is_match is "both
\* scores reach the threshold" and is_possible is "the title score reaches it
\* and is_match is false"; the two are never both true, and one of them is
\* true exactly when the title score reaches the threshold.
C19_FlagsFromScores ==
  scored.classified =>
    LET title_ok == scored.title_score >= scored.threshold
        author_ok == scored.author_score >= scored.threshold
        flags == scored.flags
    IN /\ flags.title_score = scored.title_score
       /\ flags.author_score = scored.author_score
       /\ flags.is_match = (title_ok /\ author_ok)
       /\ flags.is_possible = (title_ok /\ ~flags.is_match)
       /\ ~(flags.is_match /\ flags.is_possible)
       /\ (flags.is_match \/ flags.is_possible) = title_ok

\* C19 witness: a title score exactly at the threshold with an author score
\* just below it has been classified as a possible match.
C19_Witness ==
  /\ scored.classified
  /\ scored.threshold = 85
  /\ scored.title_score = 85
  /\ scored.author_score = 84
  /\ scored.flags.is_possible
  /\ ~scored.flags.is_match

\* One of the two authors handed to score normalises to the empty string.
AnAuthorIsEmpty ==
  normalize(scored.request_author) = "" \/ normalize(scored.item.author) = ""

\* C20 as stated: at every threshold, when one of the authors is empty the
\* author score is 0, the pair is no certain match, and the loop body does
\* not set the request to fulfilled.
C20_EmptyAuthorNeverCertain ==
  (scored.checked /\ AnAuthorIsEmpty)
    => /\ scored.result.author_score = 0
       /\ ~scored.result.is_match
       /\ scored.status_after # "fulfilled"

\* C20 amended: the author score is 0 at every threshold; at a threshold
\* above 0 the pair is no certain match and the loop body leaves the request
\* as it was, sets it to possible_match or reverts it to pending.
C20_EmptyAuthorNeverCertainAboveZero ==
  (scored.checked /\ AnAuthorIsEmpty)
    => /\ scored.result.author_score = 0
       /\ scored.threshold > 0
            => /\ ~scored.result.is_match
               /\ scored.status_after \in {scored.status, "possible_match", "pending"}
               /\ scored.status_after # "fulfilled"

\* C20 witness: a request without author checked against the item that has
\* its title and an author, at the default threshold: a possible match.
C20_Witness ==
  /\ scored.checked
  /\ scored.request_author = NULL
  /\ scored.item = E1
  /\ scored.threshold = 85
  /\ scored.status = "pending"
  /\ scored.result.is_possible
  /\ scored.status_after = "possible_match"

\* The request the loop of run k is at.
Current(k) == active_requests[k][idx[k]]

\* What check_single answers for request r on the snapshot of run k.
CheckOf(k, r) ==
  check_single(LibraryMatcher(Threshold), ReqTitle(r), OrEmpty(ReqAuthor(r)),
               abs_items[k])

\* Run k completes one iteration of its loop, on a snapshot that is not empty.
Iterates(k) ==
  /\ pc[k] = "loop"
  /\ idx'[k] = idx[k] + 1
  /\ abs_items[k] # << >>

\* The ids in a list.
Ids(list) == {list[i] : i \in 1..Len(list)}

\* C21: an iteration whose check is certain sets the request to fulfilled in
\* the session, with the matched item's title and author and the mark
\* fulfilled_by_sync, and appends its id to the run's list; the commit stores
\* that; and the list a run closes as completed with holds, once each, exactly
\* the ids of the selected requests the run set to fulfilled.
C21_CertainMatchFulfils ==
  [][\A k \in Runs :
       /\ (Iterates(k) /\ CheckOf(k, Current(k)).found
                       /\ CheckOf(k, Current(k)).is_certain)
            => LET r == Current(k)
               IN /\ sess'[k][r].status = "fulfilled"
                  /\ sess'[k][r].abs_match_title = CheckOf(k, r).match.title
                  /\ sess'[k][r].abs_match_author = CheckOf(k, r).match.author
                  /\ sess'[k][r].fulfilled_by_sync
                  /\ matched_ids'[k] = Append(matched_ids[k], r)
       /\ Commits(k)
            => \A r \in ReqIds :
                 (Selected(k, r) /\ sess[k][r].status = "fulfilled")
                   => /\ requests'[r].status = "fulfilled"
                      /\ requests'[r].fulfilled_by_sync
       /\ (pc[k] = "finalise" /\ pc'[k] = "done")
            => LET ids == syncLogs'[log_id[k]].matched_request_ids
               IN /\ Ids(ids) = {r \in ReqIds : Selected(k, r)
                                                 /\ sess[k][r].status = "fulfilled"}
                  /\ Len(ids) = Cardinality(Ids(ids))]_vars

\* C21 witness: a completed run that checked both requests lists request 1
\* alone, which is stored as fulfilled by the sync with the matched item.
C21_Witness ==
  /\ Len(syncLogs) = 1
  /\ syncLogs[1].status = "completed"
  /\ syncLogs[1].total_requests_checked = 2
  /\ syncLogs[1].matched_request_ids = <<1>>
  /\ requests[1].status = "fulfilled"
  /\ requests[1].fulfilled_by_sync
  /\ requests[1].abs_match_title = "Dune"
  /\ requests[1].abs_match_author = "Frank Herbert"
  /\ requests[2].status = "possible_match"

\* C22: an iteration whose check is found but not certain, on a request
\* that is pending, in_progress or possible_match in the session, sets it to
\* possible_match with the best item's title and author, leaves
\* fulfilled_by_sync as it was and appends nothing to the run's list.
C22_PossibleMatchMarks ==
  [][\A k \in Runs :
       (/\ Iterates(k)
        /\ CheckOf(k, Current(k)).found
        /\ ~CheckOf(k, Current(k)).is_certain
        /\ sess[k][Current(k)].status \in _CHECKABLE_STATUSES)
         => LET r == Current(k)
            IN /\ sess'[k][r].status = "possible_match"
               /\ sess'[k][r].abs_match_title = CheckOf(k, r).match.title
               /\ sess'[k][r].abs_match_author = CheckOf(k, r).match.author
               /\ sess'[k][r].fulfilled_by_sync = sess[k][r].fulfilled_by_sync
               /\ matched_ids'[k] = matched_ids[k]]_vars

\* C22 witness: a run is about to commit a possible match for a request it
\* loaded as in_progress, with the item stored and nothing listed.
C22_Witness ==
  \E k \in Runs : \E r \in ReqIds :
    /\ pc[k] = "commit"
    /\ base[k][r].status = "in_progress"
    /\ sess[k][r].status = "possible_match"
    /\ sess[k][r].abs_match_title = "Dune"
    /\ ~sess[k][r].fulfilled_by_sync
    /\ r \notin Ids(matched_ids[k])

\* Run k is past its fetch with an empty snapshot.
EmptySnapshot(k) ==
  pc[k] \in {"loop", "commit", "finalise"} /\ abs_items[k] = << >>

\* C23: on an empty snapshot every iteration only stamps the request in the
\* session and never raises; the commit stores the stamp of every selected
\* request and changes no status, matched field or flag of any request; the
\* run closes as completed with total_requests_checked the number of selected
\* requests, no match counted and none listed; and it leaves that path only
\* when one of its two commits raises.
C23_EmptySnapshotOnlyStamps ==
  [][\A k \in Runs :
       EmptySnapshot(k) =>
         /\ (pc[k] = "loop" /\ pc'[k] # "loop") => pc'[k] = "commit"
         /\ (pc[k] = "loop" /\ idx'[k] # idx[k])
              => /\ sess'[k][Current(k)] =
                      [sess[k][Current(k)] EXCEPT !.last_sync_checked_at = now]
                 /\ \A r \in ReqIds \ {Current(k)} : sess'[k][r] = sess[k][r]
                 /\ matched_ids'[k] = << >>
         /\ Commits(k)
              => \A r \in ReqIds :
                   /\ requests'[r].status = requests[r].status
                   /\ requests'[r].abs_match_title = requests[r].abs_match_title
                   /\ requests'[r].abs_match_author = requests[r].abs_match_author
                   /\ requests'[r].fulfilled_by_sync = requests[r].fulfilled_by_sync
                   /\ Selected(k, r)
                        => /\ requests'[r].last_sync_checked_at # NullTime
                           /\ requests'[r].last_sync_checked_at =
                                sess[k][r].last_sync_checked_at
         /\ (pc[k] = "finalise" /\ pc'[k] = "done")
              => /\ syncLogs'[log_id[k]].status = "completed"
                 /\ syncLogs'[log_id[k]].total_requests_checked = Len(active_requests[k])
                 /\ syncLogs'[log_id[k]].total_matches_found = 0
                 /\ syncLogs'[log_id[k]].matched_request_ids = << >>
         /\ pc'[k] = "except" => exc'[k] = "OperationalError"]_vars

\* C23 witness: a run that the catalogue answered with no item has stamped
\* and committed both requests, which are still pending, and is about to
\* close its row.
C23_Witness ==
  \E k \in Runs :
    /\ pc[k] = "finalise"
    /\ fetched[k] = "ok"
    /\ abs_items[k] = << >>
    /\ Len(active_requests[k]) = 2
    /\ wrote[k] = {1, 2}
    /\ \A r \in ReqIds :
         /\ requests[r].status = "pending"
         /\ requests[r].abs_match_title = NULL
         /\ requests[r].last_sync_checked_at # NullTime

\* C24: the step that closes a row as completed is taken by the run that
\* inserted it, from the point after its request commit, and writes
\* finished_at (not null), the number of selected requests, the length of
\* the run's list and the list itself; a run gets to that point only by the
\* step in which its request commit succeeds and stores its mutations.
C24_CompletedRowRecordsRun ==
  [][/\ \A i \in 1..Len(syncLogs) :
          (syncLogs[i].status # "completed" /\ syncLogs'[i].status = "completed")
            => \E k \in Runs :
                 /\ log_id[k] = i
                 /\ pc[k] = "finalise"
                 /\ sess_ok[k]
                 /\ syncLogs'[i].finished_at = now
                 /\ syncLogs'[i].finished_at # NullTime
                 /\ syncLogs'[i].total_requests_checked = Len(active_requests[k])
                 /\ syncLogs'[i].total_matches_found = Len(matched_ids[k])
                 /\ syncLogs'[i].matched_request_ids = matched_ids[k]
                 /\ syncLogs'[i].error_message = NULL
     /\ \A k \in Runs :
          (pc'[k] = "finalise" /\ pc[k] # "finalise")
            => /\ pc[k] = "commit"
               /\ \A r \in ReqIds : StoresMutations(k, r)]_vars

\* C24 witness: after a failed run, a run that took longer than the window
\* to fetch has closed as completed with both requests checked and one listed.
C24_Witness ==
  /\ Len(syncLogs) = 2
  /\ syncLogs[1].status = "failed"
  /\ syncLogs[2].status = "completed"
  /\ syncLogs[2].finished_at > syncLogs[2].started_at
  /\ syncLogs[2].total_requests_checked = 2
  /\ syncLogs[2].total_matches_found = 1
  /\ syncLogs[2].matched_request_ids = <<1>>

\* C25: the select of a run yields, once each, exactly the requests stored
\* as pending, in_progress or possible_match at that moment; and no step of
\* the run changes any field of a stored request it did not select, that is,
\* of a request that was fulfilled, completed or rejected at the selection.
C25_SelectsCheckableOnly ==
  [][\A k \in Runs :
       /\ (pc[k] = "select" /\ pc'[k] # "select")
            => /\ Ids(active_requests'[k]) =
                    {r \in ReqIds : requests[r].status \in _CHECKABLE_STATUSES}
               /\ ReqIds \ Ids(active_requests'[k]) =
                    {r \in ReqIds : requests[r].status \in SettledStatuses}
               /\ Len(active_requests'[k]) = Cardinality(Ids(active_requests'[k]))
       /\ pc'[k] # pc[k]
            => \A r \in ReqIds : ~Selected(k, r) => requests'[r] = requests[r]]_vars

\* C25 witness: a run that selected request 2 alone has committed, and
\* request 1, rejected by the manager before the selection, carries no stamp.
C25_Witness ==
  \E k \in Runs :
    /\ pc[k] = "finalise"
    /\ active_requests[k] = <<2>>
    /\ abs_items[k] # << >>
    /\ wrote[k] = {2}
    /\ requests[1].status = "rejected"
    /\ requests[1].last_sync_checked_at = NullTime
    /\ requests[2].last_sync_checked_at # NullTime

\* The score of the request of the matcher-on-a-list state against item i.
ItemScore(i) ==
  score(LibraryMatcher(scored.threshold), "Dune", scored.author,
        scored.library_items[i].title, scored.library_items[i].author)

\* The positions of the list whose item is a match or a possible match.
KeptPositions ==
  {i \in 1..Len(scored.library_items) :
     ItemScore(i).is_match \/ ItemScore(i).is_possible}

\* C26: the result of find_matches is the items at the kept positions, each
\* once, with their scores, in descending order of title_score, items of
\* equal title_score in the order they have in the list.
C26_FindMatchesKeepsAndSorts ==
  scored.searched =>
    \E f \in [1..Len(scored.matches) -> 1..Len(scored.library_items)] :
      /\ {f[j] : j \in 1..Len(scored.matches)} = KeptPositions
      /\ Len(scored.matches) = Cardinality(KeptPositions)
      /\ \A j \in 1..Len(scored.matches) :
           /\ scored.matches[j].title = scored.library_items[f[j]].title
           /\ scored.matches[j].author = scored.library_items[f[j]].author
           /\ scored.matches[j].title_score = ItemScore(f[j]).title_score
           /\ scored.matches[j].author_score = ItemScore(f[j]).author_score
           /\ scored.matches[j].is_match = ItemScore(f[j]).is_match
           /\ scored.matches[j].is_possible = ItemScore(f[j]).is_possible
      /\ \A i, j \in 1..Len(scored.matches) :
           i < j => \/ scored.matches[i].title_score > scored.matches[j].title_score
                    \/ /\ scored.matches[i].title_score = scored.matches[j].title_score
                       /\ f[i] < f[j]

\* C26 witness: at threshold 0 a list whose first item has the lower title
\* score and whose other two tie has been sorted: the tied items first, in
\* their order, an item without author before the one with it.
C26_Witness ==
  /\ scored.searched
  /\ scored.threshold = 0
  /\ scored.author = "Frank Herbert"
  /\ scored.library_items = <<E3, E2, E1>>
  /\ Len(scored.matches) = 3
  /\ scored.matches[1].title = "Dune"
  /\ scored.matches[1].author = NULL
  /\ scored.matches[2].author = "Frank Herbert"
  /\ scored.matches[3].title = "Emma"

\* C27: check_single answers found exactly when find_matches gives a
\* non-empty list; then match is the first item of that list and is_certain
\* is that item's is_match; otherwise match is none and is_certain is false.
C27_CheckSingleReadsFirst ==
  scored.checked =>
    LET matches == find_matches(LibraryMatcher(scored.threshold), "Dune",
                                scored.author, scored.library_items)
        check == scored.check
    IN /\ check.found = (matches # << >>)
       /\ check.is_certain => check.found
       /\ IF check.found
          THEN /\ check.match.title = matches[1].title
               /\ check.match.author = matches[1].author
               /\ check.is_certain = matches[1].is_match
          ELSE /\ check.match = NULL
               /\ ~check.is_certain

\* C27 witness: the list holds a certain match behind an item of the same
\* title score that is only possible; check_single answers found, not certain.
C27_Witness ==
  /\ scored.checked
  /\ scored.threshold = 85
  /\ scored.author = "Frank Herbert"
  /\ scored.library_items = <<E2, E1>>
  /\ scored.check.found
  /\ ~scored.check.is_certain

\* Lower-case letters and digits.
LowerAlnum == {"a", "b", "7"}

\* C28: the result of normalize holds lower-case letters, digits and single
\* blanks only (every other character, the underscore included, has become a
\* blank), neither begins nor ends with a blank, is empty for an empty or
\* absent text, and is left as it is by normalize.
C28_NormalizeStripsAndCollapses ==
  scored.normalized =>
    /\ \A i \in 1..Len(scored.once) : scored.once[i] \in LowerAlnum \cup {" "}
    /\ \A i \in 1..(Len(scored.once) - 1) :
         ~(scored.once[i] = " " /\ scored.once[i + 1] = " ")
    /\ scored.once # << >> => (scored.once[1] # " " /\ scored.once[Len(scored.once)] # " ")
    /\ (scored.absent \/ scored.text = << >>) => scored.once = << >>
    /\ scored.twice = scored.once

\* The row is running and has been for the staleness window or longer.
Stale(row) == row.status = "running" /\ row.started_at <= now - StaleMinutes

\* C29: a running row older than the staleness window does not block: while
\* no running row is inside the window a guard query lets its run through to
\* the insert of a new row and the manager's trigger is not turned away, the
\* insert leaves the older rows as they are, and a row is changed only by
\* the run that inserted it, in its finalise or except step, so that the row
\* of a run that is gone stays running.
C29_StaleRowStopsBlocking ==
  [][/\ \A k \in Runs :
          /\ (pc[k] = "guard" /\ pc'[k] # pc[k] /\ ~SomeRunningInsideWindow)
               => pc'[k] = "open"
          /\ (pc[k] = "open" /\ pc'[k] = "fetch")
               => /\ Len(syncLogs') = Len(syncLogs) + 1
                  /\ syncLogs'[Len(syncLogs')].status = "running"
                  /\ \A i \in 1..Len(syncLogs) : syncLogs'[i] = syncLogs[i]
     /\ (flashed' # flashed /\ config.url /\ ~SomeRunningInsideWindow)
          => flashed' = "success" /\ invoked' = invoked + 1
     /\ \A i \in 1..Len(syncLogs) :
          syncLogs'[i] # syncLogs[i]
            => \E k \in Runs : /\ log_id[k] = i
                               /\ pc[k] \in {"finalise", "except"}
                               /\ pc'[k] = "done"]_vars

\* C29 witness: two running rows at once, the second inserted by a run that
\* passed the guard while the first had been running for the window or
\* longer.
C29_Witness ==
  /\ Len(syncLogs) = 2
  /\ Stale(syncLogs[1])
  /\ syncLogs[2].status = "running"
  /\ syncLogs[2].started_at >= syncLogs[1].started_at + StaleMinutes

\* C30: over the whole ledger a request id stands in the matched_request_ids
\* of at most one row, and at most once in that list.
C30_RequestMatchedByOneRun ==
  \A i, j \in 1..Len(syncLogs) :
    \A p \in 1..Len(syncLogs[i].matched_request_ids) :
      \A q \in 1..Len(syncLogs[j].matched_request_ids) :
        syncLogs[i].matched_request_ids[p] = syncLogs[j].matched_request_ids[q]
          => (i = j /\ p = q)

\* The statuses a run assigns.
RunStatuses == {"fulfilled", "possible_match", "pending"}

\* C31: a status a run assigns to a request in its session, and a status a
\* step of a run stores, is fulfilled, possible_match or pending; an
\* iteration that finds nothing for a request flagged possible_match sets it
\* to pending, whatever the request was before it was flagged.
C31_RunWritesThreeStatuses ==
  [][/\ \A k \in Runs : \A r \in ReqIds :
          /\ (pc[k] = "loop" /\ sess'[k][r].status # sess[k][r].status)
               => sess'[k][r].status \in RunStatuses
          /\ (/\ Iterates(k)
              /\ r = Current(k)
              /\ sess[k][r].status = "possible_match"
              /\ ~CheckOf(k, r).found)
               => sess'[k][r].status = "pending"
     /\ \A r \in ReqIds :
          (edits' = edits /\ requests'[r].status # requests[r].status)
            => requests'[r].status \in RunStatuses]_vars

\* C31 witness: after the manager's edit a run is about to commit the revert
\* to pending of a request that an earlier run had flagged possible_match
\* with the matched item.
C31_Witness ==
  \E k \in Runs : \E r \in ReqIds :
    /\ edits = 1
    /\ pc[k] = "commit"
    /\ requests[r].status = "possible_match"
    /\ requests[r].abs_match_title = "Dune"
    /\ base[k][r].status = "possible_match"
    /\ sess[k][r].status = "pending"
    /\ sess[k][r].abs_match_title = NULL

\* The request is stored as fulfilled by a run.
FulfilledBySync(r) == requests[r].status = "fulfilled" /\ requests[r].fulfilled_by_sync

\* C32: a request stored as fulfilled by a run is changed by no step of a
\* run afterwards: its status, matched title and author, fulfilled_by_sync
\* and last_sync_checked_at stay as they are unless the manager edits it.
C32_FulfilledIsLeftAlone ==
  [][\A r \in ReqIds :
       (FulfilledBySync(r) /\ edits' = edits) => requests'[r] = requests[r]]_vars

\* C33: every row of the ledger is well formed for its status: a running
\* row has neither finishing time nor error message; a completed row has a
\* finishing time, no error message, and total_matches_found equal to the
\* length of matched_request_ids and at most total_requests_checked; a failed
\* row has a finishing time and an error message and total_matches_found 0.
C33_RowsAreWellFormed ==
  \A i \in 1..Len(syncLogs) :
    LET row == syncLogs[i]
    IN /\ row.status = "running"
            => row.finished_at = NullTime /\ row.error_message = NULL
       /\ row.status = "completed"
            => /\ row.finished_at # NullTime
               /\ row.error_message = NULL
               /\ row.total_matches_found = Len(row.matched_request_ids)
               /\ row.total_matches_found <= row.total_requests_checked
       /\ row.status = "failed"
            => /\ row.finished_at # NullTime
               /\ row.error_message # NULL
               /\ row.total_matches_found = 0

\* C33 witness: the ledger holds a failed row of a run that raised in its
\* loop and a completed row of a run that matched one of two requests.
C33_Witness ==
  \E i, j \in 1..Len(syncLogs) :
    /\ syncLogs[i].status = "failed"
    /\ syncLogs[i].error_message = "'int' object has no attribute 'lower'"
    /\ syncLogs[j].status = "completed"
    /\ syncLogs[j].total_requests_checked = 2
    /\ syncLogs[j].total_matches_found = 1

\* Some row of the ledger has status running.
SomeRunning == \E i \in 1..Len(syncLogs) : syncLogs[i].status = "running"

\* C34: the status endpoint reports is_running exactly when some row has
\* status running, whatever the row's age; and a guard query made while it
\* reports is_running with every running row older than the window lets the
\* run through.
C34_IsRunningIgnoresAge ==
  /\ [](sync_status.is_running <=> SomeRunning)
  /\ [][\A k \in Runs :
          (/\ pc[k] = "guard"
           /\ pc'[k] # pc[k]
           /\ sync_status.is_running
           /\ ~SomeRunningInsideWindow)
            => pc'[k] = "open"]_vars

\* C34 witness: the endpoint reports is_running for a row older than the
\* window while another run has passed the guard and is about to insert
\* its row.
C34_Witness ==
  /\ sync_status.is_running
  /\ ~SomeRunningInsideWindow
  /\ \E k \in Runs : pc[k] = "open"

\* C35: the step in which the fetch of a run returns sets the cache entry to
\* the snapshot the run holds, the empty one included, and the run keeps
\* that snapshot through its select and its loop; a run turned away by the
\* guard and a run whose fetch fails leave the cache entry as it is.
C35_RunRefreshesCache ==
  [][\A k \in Runs :
       /\ (pc[k] = "fetch" /\ pc'[k] = "select") => cache' = abs_items'[k]
       /\ pc[k] \in {"select", "loop"} => abs_items'[k] = abs_items[k]
       /\ (pc[k] = "guard" /\ pc'[k] = "done") => UNCHANGED cache
       /\ (pc[k] = "fetch" /\ pc'[k] = "except") => UNCHANGED cache]_<<pc, abs_items, cache>>

\* C35 witness: a run whose fetch answered the empty list has replaced the
\* entry another run had filled from a snapshot with items.
C35_Witness ==
  \E k, j \in Runs :
    /\ pc[k] = "select"
    /\ abs_items[k] = << >>
    /\ pc[j] \in {"loop", "commit"}
    /\ abs_items[j] # << >>
    /\ cache = << >>

\* C36: in the step in which a run closes its row as completed, every
\* request the run selected is stored with a last_sync_checked_at that is
\* not earlier than the row's started_at and not later than its finished_at.
C36_StampInsideRun ==
  [][\A k \in Runs :
       (pc[k] = "finalise" /\ pc'[k] = "done")
         => \A r \in ReqIds :
              Selected(k, r)
                => /\ syncLogs'[log_id[k]].started_at <= requests'[r].last_sync_checked_at
                   /\ requests'[r].last_sync_checked_at <= syncLogs'[log_id[k]].finished_at]_vars

\* C37: every row carries triggered_by 'scheduler' or 'manual', the values
\* its run was invoked with; a scheduler row has no user and exists only
\* when the catalogue URL is configured; a manual row carries the id of a
\* manager; and a thread started by the manager's trigger runs as 'manual'
\* for that manager.
C37_RowsCarryTheirTrigger ==
  /\ \A i \in 1..Len(syncLogs) :
       /\ syncLogs[i].triggered_by \in {"scheduler", "manual"}
       /\ syncLogs[i].triggered_by = "scheduler"
            => syncLogs[i].triggered_by_user_id = NULL /\ config.url
       /\ syncLogs[i].triggered_by = "manual"
            => syncLogs[i].triggered_by_user_id \in ManagerIds
  /\ \A k \in Runs :
       /\ Opened(k) => /\ RowOf(k).triggered_by = triggered_by[k]
                       /\ RowOf(k).triggered_by_user_id = triggered_by_user_id[k]
       /\ triggered_by[k] = "scheduler" => config.url
  /\ flashed = "success"
       => \E k \in Runs : /\ triggered_by[k] = "manual"
                          /\ triggered_by_user_id[k] \in ManagerIds

\* C37 witness: the ledger holds a row of the periodic job and a row of a
\* manager's trigger.
C37_Witness ==
  \E i, j \in 1..Len(syncLogs) :
    /\ syncLogs[i].triggered_by = "scheduler"
    /\ syncLogs[i].triggered_by_user_id = NULL
    /\ syncLogs[j].triggered_by = "manual"
    /\ syncLogs[j].triggered_by_user_id = "m1"

====
